---- MODULE Spec2Model ----
(***************************************************************************)
(* The change-tracked store of the scheduling client (lib/api/client):     *)
(* the working and original datasets, the four tracking sets, and the      *)
(* asynchronous operations that mutate them.  Times are small integers     *)
(* (days), a clock reading is a natural number.                            *)
(***************************************************************************)
EXTENDS Integers, Sequences, FiniteSets, TLC

\* ---------------------------------------------------------------- bounds
MaxTime == 2
MaxClock == 2

\* let bearerToken: string | null = null
null == "null"

Times == 0..MaxTime

\* "undefined": an optional field the caller left out
None == "undefined"

\* ------------------------------------------------------------- mock data
mockTeams ==
  << [id |-> "team-1", name |-> "Team1"],
     [id |-> "team-2", name |-> "Team2"] >>

\* two of the mock assignments, their dates mapped to days in order: the
\* leader's period contains the member's
mockAssignments ==
  << [id |-> "assign-001", resourceId |-> "tech-001", teamId |-> "team-1",
      start |-> 1, end |-> 2, isTeamLeader |-> FALSE],
     [id |-> "assign-003", resourceId |-> "tech-005", teamId |-> "team-1",
      start |-> 0, end |-> 2, isTeamLeader |-> TRUE] >>

\* what the external system returns for crews, memberships and leaders
ifsTeams == << [id |-> "crew-1", name |-> "CREW1"] >>

ifsAssignments ==
  << [id |-> "assign-1-1", resourceId |-> "tech-005", teamId |-> "crew-1",
      start |-> 0, end |-> 1, isTeamLeader |-> TRUE] >>

\* ----------------------------------------------------------------- state
VARIABLES
  USE_IFS_CLOUD,              \* environment flag, fixed at module load
  workingTeams,
  workingAssignments,
  isWorkingStateInitialized,
  originalTeams,
  originalAssignments,
  changedAssignments,
  changedTeams,
  deletedAssignments,
  deletedTeams,
  now,                        \* the clock, Date.now()
  pending,                    \* calls suspended at an await inside their body
  last,                       \* outcome of the step taken last
  bearerToken,                \* ifs-auth.ts, in the server process
  tokenExpiresAt              \* ifs-auth.ts, in milliseconds

\* the token cache of the server process; the calls of the API client reach
\* it through the server's routes only
server == << bearerToken, tokenExpiresAt >>

store == << workingTeams, workingAssignments, isWorkingStateInitialized,
            originalTeams, originalAssignments, changedAssignments,
            changedTeams, deletedAssignments, deletedTeams >>

vars == << USE_IFS_CLOUD, workingTeams, workingAssignments,
           isWorkingStateInitialized, originalTeams, originalAssignments,
           changedAssignments, changedTeams, deletedAssignments, deletedTeams,
           now, pending, last, bearerToken, tokenExpiresAt >>

\* --------------------------------------------------------------- helpers
\* an empty slot of a sparse array (an index never written)
Hole == [id |-> "<empty>", resourceId |-> "<empty>", teamId |-> "<empty>",
         start |-> 0, end |-> 0, isTeamLeader |-> FALSE]

IsHole(a) == a.id = "<empty>"

\* the elements array iteration visits (filter, some, forEach skip empty slots)
Range(s) == { s[i] : i \in 1..Len(s) } \ { Hole }

Ids(s) == { a.id : a \in Range(s) }

\* {...a, ...b}
Spread(a, b) ==
  [f \in DOMAIN a \cup DOMAIN b |-> IF f \in DOMAIN b THEN b[f] ELSE a[f]]

\* s[i] = v, on an array that grows (leaving empty slots) when i is past its end
WriteAt(s, i, v) ==
  [j \in 1..(IF i > Len(s) THEN i ELSE Len(s)) |->
     IF j = i THEN v ELSE IF j <= Len(s) THEN s[j] ELSE Hole]

\* Array.prototype.find / findIndex, 1-based; 0 stands for "not found"
FindIndex(s, hit(_)) ==
  IF \E i \in 1..Len(s) : hit(s[i])
  THEN CHOOSE i \in 1..Len(s) : hit(s[i]) /\ \A j \in 1..(i - 1) : ~hit(s[j])
  ELSE 0

\* find and findIndex do visit empty slots: the callback reads a field of
\* undefined and throws a TypeError, unless a match comes first
FindThrows(s, hit(_)) ==
  \E i \in 1..Len(s) : IsHole(s[i]) /\ \A j \in 1..(i - 1) : ~hit(s[j])

\* `assign-${Date.now()}` and `team-${Date.now()}`; a clock reading is written
\* t<n> so that it never coincides with the digits of a seeded id
DateNow(t) == "t" \o ToString(t)

\* variant: intervals that share an end point overlap
rangesOverlapClosed(start1, end1, start2, end2) ==
  start1 <= end2 /\ start2 <= end1

\* return start1 < end2 && start2 < end1
rangesOverlap(start1, end1, start2, end2) == start1 < end2 /\ start2 < end1

\* the first leader-flagged assignment of the team that overlaps, 0 if none,
\* -1 if the search throws
findConflictingTeamLeader(teamId, start, end, excludeAssignmentId) ==
  LET hit(a) == /\ ~IsHole(a)
                /\ a.teamId = teamId
                /\ a.isTeamLeader
                /\ ~(excludeAssignmentId # None /\ a.id = excludeAssignmentId)
                /\ rangesOverlap(start, end, a.start, a.end)
  IN IF FindThrows(workingAssignments, hit) THEN -1
     ELSE FindIndex(workingAssignments, hit)

\* valid: the caller goes on only then, and throws otherwise
validateTeamLeader(teamId, start, end, excludeAssignmentId) ==
  findConflictingTeamLeader(teamId, start, end, excludeAssignmentId) = 0

hasUnsavedChanges ==
  \/ changedAssignments # {}
  \/ changedTeams # {}
  \/ deletedAssignments # {}
  \/ deletedTeams # {}

\* What the step taken last was and how it ended: the call, whether it returned
\* (ok) or threw, and the id it returned or was given.  For a createAssignment,
\* and for a deleteAssignment of the id the createAssignment before it has
\* returned, `clean` tells that all four tracking sets were empty before the
\* create, and `before` is workingAssignments as it was then.
Result(op, ok, id) ==
  [op |-> op, ok |-> ok, id |-> id, clean |-> FALSE, before |-> << >>]

\* a step of a call runs after a delay and reads the clock dt later; steps of
\* calls in flight together may read the same clock (dt = 0)
Advance(dt) == /\ now + dt <= MaxClock
               /\ now' = now + dt

Suspend(call) ==
  /\ pending' = pending \cup {call}
  /\ last' = Result("await", TRUE, None)

\* --------------------------------------------------------------- initial
\* The scheduler runs getSchedulerData when it mounts, before any gesture can
\* reach the store: the store starts seeded, from the external system, from
\* the mock data, or from the mock data after a failed fetch.
Init ==
  /\ USE_IFS_CLOUD \in BOOLEAN
  /\ \E fetched \in BOOLEAN :
       /\ fetched => USE_IFS_CLOUD
       /\ workingTeams = IF fetched THEN ifsTeams ELSE mockTeams
       /\ workingAssignments = IF fetched THEN ifsAssignments
                               ELSE mockAssignments
  /\ isWorkingStateInitialized = TRUE
  /\ originalTeams = workingTeams
  /\ originalAssignments = workingAssignments
  /\ changedAssignments = {}
  /\ changedTeams = {}
  /\ deletedAssignments = {}
  /\ deletedTeams = {}
  /\ now = 0
  /\ pending = {}
  /\ last = Result("getSchedulerData", TRUE, None)
  /\ bearerToken = null
  /\ tokenExpiresAt = 0

\* ------------------------------------------------------ getSchedulerData
seed(teams, assignments) ==
  /\ workingTeams' = teams
  /\ workingAssignments' = assignments
  /\ originalTeams' = teams
  /\ originalAssignments' = assignments
  /\ isWorkingStateInitialized' = TRUE

clearSets ==
  /\ changedAssignments' = {}
  /\ changedTeams' = {}
  /\ deletedAssignments' = {}
  /\ deletedTeams' = {}

keepSets ==
  UNCHANGED << changedAssignments, changedTeams, deletedAssignments,
               deletedTeams >>

\* the branch taken once getCrewsDataFromIFS has settled: the try block with
\* the fetched data, or the catch block
getSchedulerDataFetched(fetched) ==
  /\ IF fetched
     THEN seed(ifsTeams, ifsAssignments) /\ clearSets
     ELSE seed(mockTeams, mockAssignments) /\ keepSets
  /\ last' = Result("getSchedulerData", TRUE, None)

\* the branch taken when no fetch is made
getSchedulerDataLocal ==
  /\ IF ~USE_IFS_CLOUD /\ ~isWorkingStateInitialized
     THEN seed(mockTeams, mockAssignments) /\ keepSets
     ELSE UNCHANGED store
  /\ last' = Result("getSchedulerData", TRUE, None)

\* a whole call, nothing else running
getSchedulerDataCall(fetched) ==
  /\ Advance(1)
  /\ UNCHANGED << USE_IFS_CLOUD, server, pending >>
  /\ IF USE_IFS_CLOUD /\ ~isWorkingStateInitialized
     THEN getSchedulerDataFetched(fetched)
     ELSE getSchedulerDataLocal

\* ------------------------------------------------------ createAssignment
createAssignmentCommit(input) ==
  LET newAssignment ==
        [id |-> "assign-" \o DateNow(now'),
         resourceId |-> input.resourceId,
         teamId |-> input.teamId,
         start |-> input.start,
         end |-> input.end,
         isTeamLeader |-> input.isTeamLeader]
  IN /\ workingAssignments' = Append(workingAssignments, newAssignment)
     /\ changedAssignments' = changedAssignments \cup {newAssignment.id}
     /\ last' = [op |-> "createAssignment", ok |-> TRUE,
                 id |-> newAssignment.id,
                 clean |-> ~hasUnsavedChanges,
                 before |-> workingAssignments]
     /\ UNCHANGED << workingTeams, isWorkingStateInitialized, originalTeams,
                     originalAssignments, changedTeams, deletedAssignments,
                     deletedTeams >>

\* validateTeamLeader after its delay, and the rest of createAssignment
createAssignmentValidated(input) ==
  IF validateTeamLeader(input.teamId, input.start, input.end, None)
  THEN createAssignmentCommit(input)
  ELSE /\ last' = Result("createAssignment", FALSE, None)
       /\ UNCHANGED store

\* the body up to `await this.validateTeamLeader(...)`
createAssignment(input, dt) ==
  /\ Advance(dt)
  /\ UNCHANGED << USE_IFS_CLOUD, server >>
  /\ IF input.isTeamLeader
     THEN /\ Suspend([op |-> "createAssignment", at |-> now',
                      input |-> input])
          /\ UNCHANGED store
     ELSE /\ createAssignmentCommit(input)
          /\ UNCHANGED pending

\* the validation's own delay has passed since the call was suspended
createAssignmentResume(p, dt) ==
  /\ p.op = "createAssignment"
  /\ Advance(dt)
  /\ now' > p.at
  /\ UNCHANGED << USE_IFS_CLOUD, server >>
  /\ pending' = pending \ {p}
  /\ createAssignmentValidated(p.input)

\* a whole call, nothing else running
createAssignmentCall(input) ==
  /\ Advance(1)
  /\ UNCHANGED << USE_IFS_CLOUD, server, pending >>
  /\ IF input.isTeamLeader
     THEN createAssignmentValidated(input)
     ELSE createAssignmentCommit(input)

\* ------------------------------------------------------ updateAssignment
\* what the body reads before it validates: 0 when the id is not found
updateAssignmentRead(input) ==
  LET hit(a) == a.id = input.id
      index == IF FindThrows(workingAssignments, hit) THEN 0
               ELSE FindIndex(workingAssignments, hit)
      existing == IF index = 0 THEN Hole ELSE workingAssignments[index]
  IN [index |-> index,
      existing |-> existing,
      newStart |-> IF "start" \in DOMAIN input THEN input.start
                   ELSE existing.start,
      newEnd |-> IF "end" \in DOMAIN input THEN input.end ELSE existing.end,
      newIsLeader |-> IF "isTeamLeader" \in DOMAIN input
                      THEN input.isTeamLeader ELSE existing.isTeamLeader]

\* variant: the updated entry is pushed instead of written in place
updateAssignmentWriteAppend(index, updated) ==
  Append(workingAssignments, updated)

\* workingAssignments[index] = updated
updateAssignmentWrite(index, updated) ==
  WriteAt(workingAssignments, index, updated)

updateAssignmentCommit(input, r) ==
  LET updated == Spread(Spread(r.existing, input),
                        [isTeamLeader |-> r.newIsLeader])
  IN /\ workingAssignments' = updateAssignmentWrite(r.index, updated)
     /\ changedAssignments' = changedAssignments \cup {updated.id}
     /\ deletedAssignments' = deletedAssignments \ {updated.id}
     /\ last' = Result("updateAssignment", TRUE, updated.id)
     /\ UNCHANGED << workingTeams, isWorkingStateInitialized, originalTeams,
                     originalAssignments, changedTeams, deletedTeams >>

\* variant: the id is tracked as changed before the call throws
updateAssignmentFailTracked(input) ==
  /\ last' = Result("updateAssignment", FALSE, input.id)
  /\ changedAssignments' = changedAssignments \cup {input.id}
  /\ UNCHANGED << workingTeams, workingAssignments, isWorkingStateInitialized,
                  originalTeams, originalAssignments, changedTeams,
                  deletedAssignments, deletedTeams >>

updateAssignmentFail(input) ==
  /\ last' = Result("updateAssignment", FALSE, input.id)
  /\ UNCHANGED store

\* validateTeamLeader after its delay, and the rest of updateAssignment
updateAssignmentValidated(input, r) ==
  IF validateTeamLeader(
       IF "teamId" \in DOMAIN input THEN input.teamId ELSE r.existing.teamId,
       r.newStart, r.newEnd, input.id)
  THEN updateAssignmentCommit(input, r)
  ELSE updateAssignmentFail(input)

\* the body up to `await this.validateTeamLeader(...)`
updateAssignment(input, dt) ==
  LET r == updateAssignmentRead(input)
  IN /\ Advance(dt)
     /\ UNCHANGED << USE_IFS_CLOUD, server >>
     /\ IF r.index = 0
        THEN updateAssignmentFail(input) /\ UNCHANGED pending
        ELSE IF r.newIsLeader
        THEN /\ Suspend([op |-> "updateAssignment", at |-> now',
                         input |-> input, read |-> r])
             /\ UNCHANGED store
        ELSE updateAssignmentCommit(input, r) /\ UNCHANGED pending

\* the validation's own delay has passed since the call was suspended
updateAssignmentResume(p, dt) ==
  /\ p.op = "updateAssignment"
  /\ Advance(dt)
  /\ now' > p.at
  /\ UNCHANGED << USE_IFS_CLOUD, server >>
  /\ pending' = pending \ {p}
  /\ updateAssignmentValidated(p.input, p.read)

\* a whole call, nothing else running
updateAssignmentCall(input) ==
  LET r == updateAssignmentRead(input)
  IN /\ Advance(1)
     /\ UNCHANGED << USE_IFS_CLOUD, server, pending >>
     /\ IF r.index = 0 THEN updateAssignmentFail(input)
        ELSE IF r.newIsLeader THEN updateAssignmentValidated(input, r)
        ELSE updateAssignmentCommit(input, r)

\* ------------------------------------------------------ deleteAssignment
\* variant: a deletion is never recorded
deleteAssignmentDeletedNever(id) == deletedAssignments

\* variant: a deletion is recorded whether or not the id was in original
deleteAssignmentDeletedAlways(id) == deletedAssignments \cup {id}

\* if (wasInOriginal) deletedAssignments.add(id)
deleteAssignmentDeleted(id) ==
  IF id \in Ids(originalAssignments) THEN deletedAssignments \cup {id}
  ELSE deletedAssignments

\* variant: the deleted id stays tracked as changed
deleteAssignmentChangedKept(id) == changedAssignments

\* changedAssignments.delete(id)
deleteAssignmentChanged(id) == changedAssignments \ {id}

\* the body after `await delay(200)`
deleteAssignment(id, dt) ==
  LET hit(a) == a.id = id
      keep(a) == ~IsHole(a) /\ a.id # id
      undoes == last.op = "createAssignment" /\ last.ok /\ last.id = id
  IN /\ Advance(dt)
     /\ UNCHANGED << USE_IFS_CLOUD, server, pending >>
     /\ IF FindThrows(workingAssignments, hit)
        THEN /\ last' = Result("deleteAssignment", FALSE, id)
             /\ UNCHANGED store
        ELSE /\ workingAssignments' = SelectSeq(workingAssignments, keep)
             /\ deletedAssignments' = deleteAssignmentDeleted(id)
             /\ changedAssignments' = deleteAssignmentChanged(id)
             /\ last' = [op |-> "deleteAssignment", ok |-> TRUE, id |-> id,
                         clean |-> undoes /\ last.clean,
                         before |-> IF undoes THEN last.before ELSE << >>]
             /\ UNCHANGED << workingTeams, isWorkingStateInitialized,
                             originalTeams, originalAssignments, changedTeams,
                             deletedTeams >>

\* ------------------------------------------------------------ createTeam
\* variant: the new team is pushed onto the snapshot as well, as it would be
\* if the snapshot and the working list were one array
createTeamIntoOriginal(input, dt) ==
  LET newTeam == [id |-> "team-" \o DateNow(now'), name |-> input.name]
  IN /\ Advance(dt)
     /\ workingTeams' = Append(workingTeams, newTeam)
     /\ originalTeams' = Append(originalTeams, newTeam)
     /\ changedTeams' = changedTeams \cup {newTeam.id}
     /\ last' = Result("createTeam", TRUE, newTeam.id)
     /\ UNCHANGED << USE_IFS_CLOUD, server, pending, workingAssignments,
                     isWorkingStateInitialized, originalAssignments,
                     changedAssignments, deletedAssignments, deletedTeams >>

\* the body after `await delay(300)`
createTeam(input, dt) ==
  LET newTeam == [id |-> "team-" \o DateNow(now'), name |-> input.name]
  IN /\ Advance(dt)
     /\ workingTeams' = Append(workingTeams, newTeam)
     /\ changedTeams' = changedTeams \cup {newTeam.id}
     /\ last' = Result("createTeam", TRUE, newTeam.id)
     /\ UNCHANGED << USE_IFS_CLOUD, server, pending, workingAssignments,
                     isWorkingStateInitialized, originalTeams,
                     originalAssignments, changedAssignments,
                     deletedAssignments, deletedTeams >>

\* ------------------------------------------------------------ deleteTeam
\* variant: every assignment of the team is recorded as deleted
deleteTeamDeletedAll(teamAssignments) ==
  deletedAssignments \cup { a.id : a \in teamAssignments }

\* teamAssignments.forEach: if (wasInOriginal) deletedAssignments.add(id)
deleteTeamDeleted(teamAssignments) ==
  deletedAssignments \cup
    { a.id : a \in { b \in teamAssignments :
                       b.id \in Ids(originalAssignments) } }

\* the body after `await delay(200)`
deleteTeam(id, dt) ==
  LET hit(t) == t.id = id
      index == FindIndex(workingTeams, hit)
      wasInOriginal == id \in Ids(originalTeams)
      teamAssignments == { a \in Range(workingAssignments) : a.teamId = id }
      keepTeam(t) == t.id # id
      keep(a) == ~IsHole(a) /\ a.teamId # id
  IN /\ Advance(dt)
     /\ UNCHANGED << USE_IFS_CLOUD, server, pending >>
     /\ last' = Result("deleteTeam", TRUE, id)
     /\ IF index # 0
        THEN /\ workingTeams' = SelectSeq(workingTeams, keepTeam)
             /\ deletedAssignments' = deleteTeamDeleted(teamAssignments)
             /\ changedAssignments' =
                  changedAssignments \ { a.id : a \in teamAssignments }
             /\ workingAssignments' = SelectSeq(workingAssignments, keep)
             /\ deletedTeams' = IF wasInOriginal THEN deletedTeams \cup {id}
                                ELSE deletedTeams
             /\ changedTeams' = changedTeams \ {id}
             /\ UNCHANGED << isWorkingStateInitialized, originalTeams,
                             originalAssignments >>
        ELSE UNCHANGED store

\* ------------------------------------------- synchronous store operations
resetWorkingState ==
  /\ isWorkingStateInitialized' = FALSE
  /\ clearSets
  /\ originalTeams' = << >>
  /\ originalAssignments' = << >>
  /\ last' = Result("resetWorkingState", TRUE, None)
  /\ UNCHANGED << USE_IFS_CLOUD, server, workingTeams, workingAssignments, now,
                  pending >>

\* variant: the tracking sets are cleared but the baseline is not moved
clearChangeTrackingKeepsOriginal ==
  /\ clearSets
  /\ last' = Result("clearChangeTracking", TRUE, None)
  /\ UNCHANGED << USE_IFS_CLOUD, server, workingTeams, workingAssignments,
                  originalTeams, originalAssignments,
                  isWorkingStateInitialized, now, pending >>

clearChangeTracking ==
  /\ originalTeams' = workingTeams
  /\ originalAssignments' = workingAssignments
  /\ clearSets
  /\ last' = Result("clearChangeTracking", TRUE, None)
  /\ UNCHANGED << USE_IFS_CLOUD, server, workingTeams, workingAssignments,
                  isWorkingStateInitialized, now, pending >>

\* ------------------------------------------------------ getChangeSummary
\* `a.id === id` where the map callback's `id` is bound to an element of the
\* filtered array, an object: a string never equals an object
IdEqualsObject(id, x) == FALSE

MapSeq(s, f(_)) == [i \in 1..Len(s) |-> f(s[i])]

\* .filter(Boolean): undefined entries are dropped
Boolean(a) == ~IsHole(a)

\* .map(id => workingAssignments.find(a => a.id === id)!)
summaryFind(x) ==
  LET hit(a) == IdEqualsObject(a.id, x)
      i == FindIndex(workingAssignments, hit)
  IN IF i = 0 THEN Hole ELSE workingAssignments[i]

\* The lists the body has built when it stops.  Its third statement,
\* `const deletedAssignments = Array.from(deletedAssignments)`, reads the
\* constant it declares before that constant is initialized: a ReferenceError.
getChangeSummary ==
  LET created(a) == /\ ~IsHole(a)
                    /\ a.id \in changedAssignments
                    /\ a.id \notin Ids(originalAssignments)
      updated(a) == /\ ~IsHole(a)
                    /\ a.id \in changedAssignments
                    /\ a.id \in Ids(originalAssignments)
  IN [createdAssignments |->
        SelectSeq(MapSeq(SelectSeq(workingAssignments, created), summaryFind),
                  Boolean),
      updatedAssignments |->
        SelectSeq(MapSeq(SelectSeq(workingAssignments, updated), summaryFind),
                  Boolean),
      threw |-> TRUE]

\* ---------------------------------------------------------------- inputs
\* the ids a caller can name: those it has been shown, and one unknown id
TeamChoices == Ids(workingTeams) \cup Ids(originalTeams)

IdChoices ==
  Ids(workingAssignments) \cup Ids(originalAssignments) \cup {"assign-000"}

\* two valid periods and a zero-length one
CreateInputs ==
  { [resourceId |-> "tech-001", teamId |-> t, start |-> iv[1], end |-> iv[2],
     isTeamLeader |-> l] :
      t \in TeamChoices,
      iv \in { << 0, MaxTime >>, << 1, MaxTime >>, << 1, 1 >> },
      l \in BOOLEAN }

\* the optional fields of an update, one at a time
UpdateFields ==
  { [f \in {"end"} |-> e] : e \in Times }
    \cup { [f \in {"start"} |-> MaxTime] }
    \cup { [f \in {"teamId"} |-> t] : t \in TeamChoices }
    \cup { [f \in {"isTeamLeader"} |-> l] : l \in BOOLEAN }

UpdateInputs == { [id |-> i] @@ u : i \in IdChoices, u \in UpdateFields }

TeamInputs == [name : {"Team3", ""}]

\* ------------------------------------------------------------ next state
\* calls made one after the other: each returns before the next is made
Next ==
  \/ \E fetched \in BOOLEAN : getSchedulerDataCall(fetched)
  \/ \E input \in CreateInputs : createAssignmentCall(input)
  \/ \E input \in UpdateInputs : updateAssignmentCall(input)
  \/ \E id \in IdChoices : deleteAssignment(id, 1)
  \/ \E input \in TeamInputs : createTeam(input, 1)
  \/ \E id \in TeamChoices : deleteTeam(id, 1)
  \/ resetWorkingState
  \/ clearChangeTracking

Spec == Init /\ [][Next]_vars

\* ------------------------------------------------- calls in flight together
MaxInFlight == 2
MaxLen == 4

\* a step reads the clock another step has read, or a later one
Delays == {0, 1}

ConcCreateInputs ==
  { [resourceId |-> "tech-001", teamId |-> t, start |-> 0, end |-> MaxTime,
     isTeamLeader |-> l] : t \in TeamChoices, l \in BOOLEAN }

ConcUpdateInputs ==
  { [id |-> i] @@ u :
      i \in Ids(workingAssignments),
      u \in { [f \in {"isTeamLeader"} |-> TRUE] }
              \cup { [f \in {"teamId"} |-> t] : t \in TeamChoices } }

\* createAssignment and updateAssignment calls made while others are awaiting
\* their leader validation; each step between two awaits is atomic
NextConc ==
  \/ \E input \in ConcCreateInputs, dt \in Delays :
       /\ Cardinality(pending) < MaxInFlight
       /\ Len(workingAssignments) + Cardinality(pending) < MaxLen
       /\ createAssignment(input, dt)
  \/ \E p \in pending, dt \in Delays : createAssignmentResume(p, dt)
  \/ \E input \in ConcUpdateInputs, dt \in Delays :
       /\ Cardinality(pending) < MaxInFlight
       /\ updateAssignment(input, dt)
  \/ \E p \in pending, dt \in Delays : updateAssignmentResume(p, dt)

SpecConc == Init /\ [][NextConc]_vars

\* --------------------------------- updates in flight while deletes commit
RaceUpdateInputs ==
  { [id |-> i] @@ u :
      i \in Ids(workingAssignments),
      u \in { [f \in {"isTeamLeader"} |-> TRUE] }
              \cup { [f \in {"end"} |-> MaxTime] }
              \cup { [f \in {"teamId"} |-> t] : t \in Ids(workingTeams) } }

\* updateAssignment, deleteAssignment and deleteTeam calls made while updates
\* are awaiting their leader validation
NextRace ==
  \/ \E input \in RaceUpdateInputs, dt \in Delays :
       /\ Cardinality(pending) < MaxInFlight
       /\ updateAssignment(input, dt)
  \/ \E p \in pending, dt \in Delays : updateAssignmentResume(p, dt)
  \/ \E id \in Ids(workingAssignments), dt \in Delays : deleteAssignment(id, dt)
  \/ \E id \in Ids(workingTeams), dt \in Delays : deleteTeam(id, dt)

SpecRace == Init /\ [][NextRace]_vars

\* ------------------------------------------- refresh in mid-session
\* a refresh (resetWorkingState, then the refetch) with assignment calls made
\* around it, one after the other; a delete reads no clock
NextRefresh ==
  \/ resetWorkingState
  \/ \E fetched \in BOOLEAN : getSchedulerDataCall(fetched)
  \/ \E input \in ConcCreateInputs : createAssignmentCall(input)
  \/ \E id \in IdChoices \cup changedAssignments, dt \in Delays :
       deleteAssignment(id, dt)

SpecRefresh == Init /\ [][NextRefresh]_vars

\* ------------------------------------------------- the scheduler's gestures
\* The assignments of another team that the resource has in the period.  The
\* scheduler imports it from the overlap module, which does not define it: it
\* is taken from the description of the rule.
findCrossTeamOverlaps(resourceId, teamId, start, end, assignments, excludeAssignmentId) ==
  LET hit(a) ==
        /\ ~IsHole(a)
        /\ a.resourceId = resourceId
        /\ a.teamId # teamId
        /\ ~(excludeAssignmentId # None /\ a.id = excludeAssignmentId)
        /\ rangesOverlap(start, end, a.start, a.end)
  IN SelectSeq(assignments, hit)

\* create mode when editingAssignment is None, edit mode otherwise; the query
\* data the handler reads is the store's working state, refetched after every
\* mutation
handleConfirmAssignment(pendingAssignment, editingAssignment, start, end, isTeamLeader) ==
  LET overlaps ==
        findCrossTeamOverlaps(pendingAssignment.resourceId,
                              pendingAssignment.teamId, start, end,
                              workingAssignments, editingAssignment)
  IN IF Len(overlaps) > 0
     THEN /\ last' = Result("handleConfirmAssignment", FALSE, editingAssignment)
          /\ UNCHANGED << USE_IFS_CLOUD, server, store, now, pending >>
     ELSE IF editingAssignment # None
     THEN updateAssignmentCall([id |-> editingAssignment, start |-> start,
                                end |-> end, isTeamLeader |-> isTeamLeader])
     ELSE createAssignmentCall([resourceId |-> pendingAssignment.resourceId,
                                teamId |-> pendingAssignment.teamId,
                                start |-> start, end |-> end,
                                isTeamLeader |-> isTeamLeader])

handleAssignmentResize(id, newStart, newEnd) ==
  LET hit(a) == ~IsHole(a) /\ a.id = id
      i == FindIndex(workingAssignments, hit)
      flag == IF i = 0 THEN << >>
              ELSE [f \in {"isTeamLeader"} |-> workingAssignments[i].isTeamLeader]
  IN updateAssignmentCall(
       [id |-> id, start |-> newStart, end |-> newEnd] @@ flag)

\* the period a bar is given when an edge is dragged by daysDelta days and
\* released
handleMouseUp(assignment, isResizing, daysDelta) ==
  IF isResizing = "left"
  THEN LET newStart == assignment.start + daysDelta
       IN << IF newStart >= assignment.end THEN assignment.end - 1
             ELSE newStart,
             assignment.end >>
  ELSE LET newEnd == assignment.end + daysDelta
       IN << assignment.start,
             IF newEnd <= assignment.start THEN assignment.start + 1
             ELSE newEnd >>

\* the technicians of the resource panel
Resources == {"tech-001", "tech-005"}

\* the periods the dialog lets be submitted: isValid requires start < end
DialogPeriods == { iv \in Times \X Times : iv[1] < iv[2] }

NextUI ==
  \/ \E r \in Resources, t \in Ids(workingTeams), iv \in DialogPeriods,
        l \in BOOLEAN :
       handleConfirmAssignment([resourceId |-> r, teamId |-> t], None,
                               iv[1], iv[2], l)
  \/ \E a \in Range(workingAssignments), iv \in DialogPeriods, l \in BOOLEAN :
       handleConfirmAssignment([resourceId |-> a.resourceId,
                                teamId |-> a.teamId], a.id, iv[1], iv[2], l)
  \/ \E a \in Range(workingAssignments), edge \in {"left", "right"},
        daysDelta \in {-1, 1} :
       LET iv == handleMouseUp(a, edge, daysDelta)
       IN /\ iv[1] \in Times
          /\ iv[2] \in Times
          /\ handleAssignmentResize(a.id, iv[1], iv[2])

SpecUI == Init /\ [][NextUI]_vars

\* --------------------------------------------------- findTeamLeaderGaps
\* domain/teamLeaderValidation.ts.  Dates are their millisecond values, so
\* that Date comparison is integer comparison.
MaxGapTime == 4
MaxGapLen == 3

\* .map((a) => ({ start: new Date(a.start), end: new Date(a.end) }))
toPeriods(s) ==
  [i \in 1..Len(s) |-> [start |-> s[i].start, end |-> s[i].end]]

\* one step of the sort: p goes after every entry that does not start later
RECURSIVE insertByStart(_, _)
insertByStart(sorted, p) ==
  IF sorted = << >> THEN << p >>
  ELSE IF p.start < Head(sorted).start THEN << p >> \o sorted
  ELSE << Head(sorted) >> \o insertByStart(Tail(sorted), p)

\* .sort((a, b) => a.start.getTime() - b.start.getTime()), which is stable
RECURSIVE sortByStart(_)
sortByStart(s) ==
  IF s = << >> THEN << >>
  ELSE insertByStart(sortByStart(SubSeq(s, 1, Len(s) - 1)), s[Len(s)])

\* variant: the leader periods are left in the order of the assignments
leaderAssignmentsUnsorted(teamId, assignments) ==
  LET isLeader(a) == a.teamId = teamId /\ a.isTeamLeader
  IN toPeriods(SelectSeq(assignments, isLeader))

\* assignments.filter(a.teamId === teamId && a.isTeamLeader).map(..).sort(..)
leaderAssignments(teamId, assignments) ==
  LET isLeader(a) == a.teamId = teamId /\ a.isTeamLeader
  IN sortByStart(toPeriods(SelectSeq(assignments, isLeader)))

\* assignments.filter((a) => a.teamId === teamId).map(..)
memberAssignments(teamId, assignments) ==
  LET isMember(a) == a.teamId = teamId
  IN toPeriods(SelectSeq(assignments, isMember))

\* variant: an assignment that only touches the view counts as a member in it
anyTeamMembersTouching(teamId, assignments, viewRange) ==
  \E i \in 1..Len(assignments) :
    /\ assignments[i].teamId = teamId
    /\ assignments[i].start <= viewRange.end
    /\ assignments[i].end >= viewRange.start

\* assignments.some(a.teamId === teamId && aStart < viewEnd && aEnd > viewStart)
anyTeamMembers(teamId, assignments, viewRange) ==
  \E i \in 1..Len(assignments) :
    /\ assignments[i].teamId = teamId
    /\ assignments[i].start < viewRange.end
    /\ assignments[i].end > viewRange.start

\* members.reduce((min, a) => (a.start < min ? a.start : min), min)
RECURSIVE earliestStart(_, _)
earliestStart(members, min) ==
  IF members = << >> THEN min
  ELSE earliestStart(Tail(members),
                     IF Head(members).start < min THEN Head(members).start
                     ELSE min)

\* members.reduce((max, a) => (a.end > max ? a.end : max), max)
RECURSIVE latestEnd(_, _)
latestEnd(members, max) ==
  IF members = << >> THEN max
  ELSE latestEnd(Tail(members),
                 IF Head(members).end > max THEN Head(members).end ELSE max)

\* variant: the merged period always takes the end of the period merged in
mergedEndOfPeriod(lastPeriod, period) == period.end

\* last.end = period.end > last.end ? period.end : last.end
mergedEnd(lastPeriod, period) ==
  IF period.end > lastPeriod.end THEN period.end ELSE lastPeriod.end

\* for (const period of leaderAssignments) { ... }
RECURSIVE mergedLeaderPeriods(_, _)
mergedLeaderPeriods(merged, rest) ==
  IF rest = << >> THEN merged
  ELSE LET period == Head(rest)
           n == Len(merged)
       IN IF n = 0
          THEN mergedLeaderPeriods(<< period >>, Tail(rest))
          ELSE IF period.start <= merged[n].end
          THEN mergedLeaderPeriods(
                 [merged EXCEPT ![n].end = mergedEnd(merged[n], period)],
                 Tail(rest))
          ELSE mergedLeaderPeriods(Append(merged, period), Tail(rest))

\* variant: the gaps between leader periods are not clipped to the span
RECURSIVE gapsBetweenUnclipped(_, _, _, _)
gapsBetweenUnclipped(merged, i, checkStart, checkEnd) ==
  IF i > Len(merged) - 1 THEN << >>
  ELSE (IF merged[i].end < merged[i + 1].start
        THEN << [start |-> merged[i].end, end |-> merged[i + 1].start] >>
        ELSE << >>)
       \o gapsBetweenUnclipped(merged, i + 1, checkStart, checkEnd)

\* for (let i = 0; i < mergedLeaderPeriods.length - 1; i++) { ... }
RECURSIVE gapsBetween(_, _, _, _)
gapsBetween(merged, i, checkStart, checkEnd) ==
  IF i > Len(merged) - 1 THEN << >>
  ELSE LET currentEnd == merged[i].end
           nextStart == merged[i + 1].start
           gapStart == IF currentEnd > checkStart THEN currentEnd
                       ELSE checkStart
           gapEnd == IF nextStart < checkEnd THEN nextStart ELSE checkEnd
       IN (IF currentEnd < nextStart /\ gapStart < gapEnd
           THEN << [start |-> gapStart, end |-> gapEnd] >>
           ELSE << >>)
          \o gapsBetween(merged, i + 1, checkStart, checkEnd)

findTeamLeaderGaps(teamId, assignments, viewRange) ==
  LET leaders == leaderAssignments(teamId, assignments)
      viewStart == viewRange.start
      viewEnd == viewRange.end
      members == memberAssignments(teamId, assignments)
      teamCoverageStart == earliestStart(members, members[1].start)
      teamCoverageEnd == latestEnd(members, members[1].end)
      checkStart == IF teamCoverageStart > viewStart THEN teamCoverageStart
                    ELSE viewStart
      checkEnd == IF teamCoverageEnd < viewEnd THEN teamCoverageEnd
                  ELSE viewEnd
      merged == mergedLeaderPeriods(<< >>, leaders)
      first == merged[1]
      lastEnd == merged[Len(merged)].end
      atBeginning ==
        IF first.start > checkStart
        THEN LET gapEnd == IF first.start < checkEnd THEN first.start
                           ELSE checkEnd
             IN IF checkStart < gapEnd
                THEN << [start |-> checkStart, end |-> gapEnd] >>
                ELSE << >>
        ELSE << >>
      atEnd ==
        IF lastEnd < checkEnd
        THEN LET gapStart == IF lastEnd > checkStart THEN lastEnd
                             ELSE checkStart
             IN IF gapStart < checkEnd
                THEN << [start |-> gapStart, end |-> checkEnd] >>
                ELSE << >>
        ELSE << >>
  IN IF ~anyTeamMembers(teamId, assignments, viewRange) THEN << >>
     ELSE IF Len(leaders) = 0
     THEN IF Len(members) > 0 /\ checkStart < checkEnd
          THEN << [start |-> checkStart, end |-> checkEnd] >>
          ELSE << >>
     ELSE IF checkStart >= checkEnd THEN << >>
     ELSE atBeginning \o gapsBetween(merged, 1, checkStart, checkEnd) \o atEnd

\* SchedulerBoard: findTeamLeaderGaps(team.id, assignments, viewRange) over
\* the assignments the scheduler holds
findTeamLeaderGapsCall(teamId, viewRange) ==
  /\ last' = [op |-> "findTeamLeaderGaps", ok |-> TRUE, id |-> teamId,
              clean |-> FALSE, before |-> << >>, viewRange |-> viewRange,
              gaps |-> findTeamLeaderGaps(teamId, workingAssignments,
                                          viewRange)]
  /\ UNCHANGED << USE_IFS_CLOUD, server, store, now, pending >>

GapTimes == 0..MaxGapTime

\* the view windows: start before end
ViewRanges ==
  { r \in [start : GapTimes, end : GapTimes] : r.start < r.end }

\* the valid assignments of one team, member or leader, and one leader
\* assignment of another team over the whole time line; of an assignment the
\* function reads teamId, isTeamLeader, start and end only
GapAssignments ==
  { a \in [teamId : {"team-1"}, start : GapTimes, end : GapTimes,
           isTeamLeader : BOOLEAN] : a.start < a.end }
  \cup { [teamId |-> "team-2", start |-> 0, end |-> MaxGapTime,
          isTeamLeader |-> TRUE] }

GapLists == UNION { [1..n -> GapAssignments] : n \in 0..MaxGapLen }

\* the scheduler holding any bounded list of valid assignments
InitGaps ==
  /\ USE_IFS_CLOUD = FALSE
  /\ workingTeams = mockTeams
  /\ workingAssignments \in GapLists
  /\ isWorkingStateInitialized = TRUE
  /\ originalTeams = workingTeams
  /\ originalAssignments = workingAssignments
  /\ changedAssignments = {}
  /\ changedTeams = {}
  /\ deletedAssignments = {}
  /\ deletedTeams = {}
  /\ now = 0
  /\ pending = {}
  /\ last = Result("getSchedulerData", TRUE, None)
  /\ bearerToken = null
  /\ tokenExpiresAt = 0

NextGaps ==
  \E teamId \in Ids(mockTeams), viewRange \in ViewRanges :
    findTeamLeaderGapsCall(teamId, viewRange)

SpecGaps == InitGaps /\ [][NextGaps]_vars

\* the merge loop of findTeamLeaderGaps on the team's sorted leader periods
mergedLeaderPeriodsCall(teamId) ==
  /\ last' = [op |-> "mergedLeaderPeriods", ok |-> TRUE, id |-> teamId,
              clean |-> FALSE, before |-> << >>,
              merged |-> mergedLeaderPeriods(
                           << >>,
                           leaderAssignments(teamId, workingAssignments))]
  /\ UNCHANGED << USE_IFS_CLOUD, server, store, now, pending >>

NextMerge == \E teamId \in Ids(mockTeams) : mergedLeaderPeriodsCall(teamId)

SpecMerge == InitGaps /\ [][NextMerge]_vars

\* ----------------------------------------------- the two rangesOverlap
\* domain/overlap.ts: return aStart < bEnd && bStart < aEnd
overlap_rangesOverlap(aStart, aEnd, bStart, bEnd) ==
  aStart < bEnd /\ bStart < aEnd

\* the valid intervals: start before end
Intervals ==
  { r \in [start : GapTimes, end : GapTimes] : r.start < r.end }

\* both copies applied to the intervals a and b
rangesOverlapCall(a, b) ==
  /\ last' = [op |-> "rangesOverlap", ok |-> TRUE, id |-> None,
              clean |-> FALSE, before |-> << >>, a |-> a, b |-> b,
              api |-> rangesOverlap(a.start, a.end, b.start, b.end),
              swapped |-> rangesOverlap(b.start, b.end, a.start, a.end),
              domain |-> overlap_rangesOverlap(a.start, a.end,
                                               b.start, b.end)]
  /\ UNCHANGED << USE_IFS_CLOUD, server, store, now, pending >>

NextOverlap == \E a \in Intervals, b \in Intervals : rangesOverlapCall(a, b)

SpecOverlap == Init /\ [][NextOverlap]_vars

\* ------------------------------------------------------------ ifs-auth.ts
\* Date.now() in milliseconds, a step of the clock being one minute
DateNowMs == now * 60000

\* bearerToken !== null && Date.now() < tokenExpiresAt
isIFSAuthenticated == bearerToken # null /\ DateNowMs < tokenExpiresAt

\* what the token endpoint answers: the request rejected, a status that is
\* not ok, or a TokenResponse with its id_token (possibly empty) and its
\* expires_in, in seconds
ExpiresIn == {30, 60, 120, 180}

FetchOutcomes ==
  [rejected : {TRUE}, ok : {FALSE}, id_token : {""}, expires_in : {60}]
  \cup [rejected : {FALSE}, ok : {FALSE}, id_token : {""}, expires_in : {60}]
  \cup [rejected : {FALSE}, ok : {TRUE}, id_token : {"", "a", "b"},
        expires_in : ExpiresIn]

AuthResult(op, ok, token, fetched) ==
  [op |-> op, ok |-> ok, id |-> token, clean |-> FALSE, before |-> << >>,
   fetched |-> fetched]

\* (tokenData.expires_in - 60) * 1000
expiresInMs(tokenData) == (tokenData.expires_in - 60) * 1000

\* the body of authenticateIFSCloud, run for the call `caller`; the response
\* arrives dt later and the expiry is taken from the clock read then
authenticateIFSCloudBody(caller, response, dt) ==
  IF bearerToken # null /\ DateNowMs < tokenExpiresAt
  THEN /\ last' = AuthResult(caller, TRUE, bearerToken, FALSE)
       /\ UNCHANGED << USE_IFS_CLOUD, store, now, pending, server >>
  ELSE /\ Advance(dt)
       /\ UNCHANGED << USE_IFS_CLOUD, store, pending >>
       /\ IF response.rejected \/ ~response.ok \/ response.id_token = ""
          THEN /\ last' = AuthResult(caller, FALSE, None, TRUE)
               /\ UNCHANGED server
          ELSE /\ bearerToken' = "Bearer " \o response.id_token
               /\ tokenExpiresAt' = now' * 60000 + expiresInMs(response)
               /\ last' = AuthResult(caller, TRUE, bearerToken', TRUE)

authenticateIFSCloud(response, dt) ==
  authenticateIFSCloudBody("authenticateIFSCloud", response, dt)

getIFSBearerToken(response, dt) ==
  IF bearerToken = null \/ DateNowMs >= tokenExpiresAt
  THEN authenticateIFSCloudBody("getIFSBearerToken", response, dt)
  ELSE /\ last' = AuthResult("getIFSBearerToken", TRUE, bearerToken, FALSE)
       /\ UNCHANGED << USE_IFS_CLOUD, store, now, pending, server >>

clearIFSToken ==
  /\ bearerToken' = null
  /\ tokenExpiresAt' = 0
  /\ last' = AuthResult("clearIFSToken", TRUE, None, FALSE)
  /\ UNCHANGED << USE_IFS_CLOUD, store, now, pending >>

\* a minute passes with no call made
clockTick ==
  /\ Advance(1)
  /\ last' = AuthResult("clockTick", TRUE, None, FALSE)
  /\ UNCHANGED << USE_IFS_CLOUD, store, pending, server >>

NextAuth ==
  \/ \E response \in FetchOutcomes, dt \in Delays :
       authenticateIFSCloud(response, dt)
  \/ \E response \in FetchOutcomes, dt \in Delays :
       getIFSBearerToken(response, dt)
  \/ clearIFSToken
  \/ clockTick

SpecAuth == Init /\ [][NextAuth]_vars

\* ============================================================= properties

\* C1: no id is in both changedAssignments and deletedAssignments, and no id
\* is in both changedTeams and deletedTeams, after any sequence of calls.
C1_ChangedDeletedDisjoint ==
  /\ changedAssignments \cap deletedAssignments = {}
  /\ changedTeams \cap deletedTeams = {}

\* a deletion has just been recorded while another id is tracked as changed
C1_Witness ==
  /\ last.op = "deleteAssignment"
  /\ last.id \in deletedAssignments
  /\ changedAssignments # {}

\* C2: in a seeded store every id of original missing from working is in the
\* deleted set, and every id of working missing from original is in the
\* changed set (assignments and teams).
C2_TrackingAccountsForDifferences ==
  isWorkingStateInitialized =>
    /\ Ids(originalAssignments) \ Ids(workingAssignments)
         \subseteq deletedAssignments
    /\ Ids(workingAssignments) \ Ids(originalAssignments)
         \subseteq changedAssignments
    /\ Ids(originalTeams) \ Ids(workingTeams) \subseteq deletedTeams
    /\ Ids(workingTeams) \ Ids(originalTeams) \subseteq changedTeams

\* a seeded store holding a created assignment and missing a seeded one
C2_Witness ==
  /\ isWorkingStateInitialized
  /\ Ids(workingAssignments) \ Ids(originalAssignments) # {}
  /\ Ids(originalAssignments) \ Ids(workingAssignments) # {}

\* C3: getChangeSummary lists as created exactly the working assignments whose
\* id is changed and not in original, and as updated exactly those whose id is
\* changed and in original, each with its current working value.
C3_SummaryPartitionsChanged ==
  LET created(a) == /\ a.id \in changedAssignments
                    /\ a.id \notin Ids(originalAssignments)
      updated(a) == /\ a.id \in changedAssignments
                    /\ a.id \in Ids(originalAssignments)
  IN /\ getChangeSummary.createdAssignments =
          SelectSeq(workingAssignments, created)
     /\ getChangeSummary.updatedAssignments =
          SelectSeq(workingAssignments, updated)

\* C4: getChangeSummary returns normally in every reachable state (and the
\* deleted lists it then returns resolve the deleted sets against original:
\* they exist only if it returns).
C4_SummaryReturns == ~getChangeSummary.threw

\* C5: in a seeded store with empty tracking sets, createAssignment followed by
\* deleteAssignment of the returned id leaves changedAssignments and
\* deletedAssignments empty and workingAssignments as it was before the create.
C5_CreateDeleteRoundTrip ==
  (isWorkingStateInitialized /\ last.op = "deleteAssignment" /\ last.clean) =>
    /\ changedAssignments = {}
    /\ deletedAssignments = {}
    /\ workingAssignments = last.before

\* the delete of a just created assignment has returned
C5_Witness ==
  /\ isWorkingStateInitialized
  /\ last.op = "deleteAssignment"
  /\ last.ok
  /\ last.clean
  /\ last.before # << >>

\* C6: a successful updateAssignment of an assignment present in original puts
\* its id in changedAssignments and not in deletedAssignments, replaces only
\* the entry with that id, and changes nothing else: no other id's membership
\* in a tracking set, no other entry of workingAssignments, not workingTeams.
C6_UpdateFrame ==
  [][ (/\ last'.op = "updateAssignment"
       /\ last'.ok
       /\ last'.id \in Ids(originalAssignments))
      =>
      (/\ last'.id \in changedAssignments'
       /\ last'.id \notin deletedAssignments'
       /\ Len(workingAssignments') = Len(workingAssignments)
       /\ \A i \in 1..Len(workingAssignments) :
            /\ workingAssignments'[i].id = workingAssignments[i].id
            /\ workingAssignments[i].id # last'.id
                 => workingAssignments'[i] = workingAssignments[i]
       /\ changedAssignments' \ {last'.id} = changedAssignments \ {last'.id}
       /\ deletedAssignments' \ {last'.id} = deletedAssignments \ {last'.id}
       /\ changedTeams' = changedTeams
       /\ deletedTeams' = deletedTeams
       /\ workingTeams' = workingTeams) ]_vars

\* an update of a seeded assignment has returned, next to another entry
C6_Witness ==
  /\ last.op = "updateAssignment"
  /\ last.ok
  /\ last.id \in Ids(originalAssignments)
  /\ last.id \in changedAssignments
  /\ Len(workingAssignments) > 1

\* C7: createAssignment called with start >= end fails and leaves the store
\* unchanged: no createAssignment returns an assignment with start >= end.
C7_CreateRejectsEmptyInterval ==
  (last.op = "createAssignment" /\ last.ok) =>
    \A a \in Range(workingAssignments) : a.id = last.id => a.start < a.end

\* C8: every assignment in workingAssignments has start < end.
C8_IntervalsValid ==
  \A a \in Range(workingAssignments) : a.start < a.end

\* C9: workingAssignments never holds two assignments of one resource in
\* different teams whose half-open intervals overlap.
C9_NoCrossTeamOverlap ==
  \A a, b \in Range(workingAssignments) :
    (a.resourceId = b.resourceId /\ a.teamId # b.teamId)
      => ~rangesOverlap(a.start, a.end, b.start, b.end)

\* C10: under any interleaving of in-flight createAssignment and
\* updateAssignment calls, workingAssignments never holds two distinct
\* leader-flagged assignments of one team whose half-open intervals overlap.
C10_NoOverlappingLeaders ==
  \A i, j \in 1..Len(workingAssignments) :
    LET a == workingAssignments[i]
        b == workingAssignments[j]
    IN (/\ i # j
        /\ ~IsHole(a) /\ ~IsHole(b)
        /\ a.isTeamLeader /\ b.isTeamLeader
        /\ a.teamId = b.teamId)
       => ~rangesOverlap(a.start, a.end, b.start, b.end)

\* C11: a rejected createAssignment or updateAssignment (unknown id, leader
\* conflict) leaves working and original teams and assignments and the four
\* tracking sets as they were before the call.
C11_RejectedLeavesStore ==
  [][ (last'.op \in {"createAssignment", "updateAssignment"} /\ ~last'.ok)
      => UNCHANGED store ]_vars

\* an update has been rejected in a store that holds unsaved changes
C11_Witness ==
  /\ last.op = "updateAssignment"
  /\ ~last.ok
  /\ hasUnsavedChanges

\* C12: when an updateAssignment that awaited its leader validation commits,
\* the entry it overwrites is the one whose id is input.id at that time, and
\* the values it merges the input over are that entry's values at that time.
C12_UpdateCommitsOnCurrentEntry ==
  [][ \A p \in pending :
        (/\ p.op = "updateAssignment"
         /\ p \notin pending'
         /\ last'.op = "updateAssignment"
         /\ last'.ok)
        =>
        LET hit(a) == a.id = p.input.id
            i == IF FindThrows(workingAssignments, hit) THEN 0
                 ELSE FindIndex(workingAssignments, hit)
            current == workingAssignments[i]
            flag == IF "isTeamLeader" \in DOMAIN p.input
                    THEN p.input.isTeamLeader ELSE current.isTeamLeader
        IN /\ i # 0
           /\ workingAssignments' =
                [workingAssignments EXCEPT
                   ![i] = Spread(Spread(current, p.input),
                                 [isTeamLeader |-> flag])] ]_vars

\* C13: the ids in workingAssignments, and the ids in workingTeams, are
\* pairwise distinct in every reachable state, also when two create calls
\* commit at the same clock reading.
C13_IdsPairwiseDistinct ==
  /\ \A i, j \in 1..Len(workingAssignments) :
       (i # j /\ ~IsHole(workingAssignments[i]))
         => workingAssignments[i].id # workingAssignments[j].id
  /\ \A i, j \in 1..Len(workingTeams) :
       i # j => workingTeams[i].id # workingTeams[j].id

\* C14: after clearChangeTracking the original snapshot equals the working
\* state, the four tracking sets are empty and hasUnsavedChanges is false, and
\* a second clearChangeTracking made at once changes nothing.
C14_ClearCollapsesAndIsIdempotent ==
  last.op = "clearChangeTracking" =>
    /\ originalTeams = workingTeams
    /\ originalAssignments = workingAssignments
    /\ changedAssignments = {}
    /\ changedTeams = {}
    /\ deletedAssignments = {}
    /\ deletedTeams = {}
    /\ ~hasUnsavedChanges
    /\ ~ENABLED (clearChangeTracking /\ store' # store)

\* the tracking has been cleared over a working state that holds a created
\* assignment
C14_Witness ==
  /\ last.op = "clearChangeTracking"
  /\ \E a \in Range(originalAssignments) :
       a.id \notin Ids(mockAssignments) \cup Ids(ifsAssignments)

\* C15: when the first getSchedulerData after a resetWorkingState completes,
\* working and original both equal the data of the source (the external
\* system or the mock data) and the four tracking sets are empty, whichever
\* branch seeds and whichever mutations ran since the reset.
C15_ResetThenFetchReseeds ==
  [][ (~isWorkingStateInitialized /\ last'.op = "getSchedulerData")
      =>
      (/\ \E source \in { << mockTeams, mockAssignments >>,
                          << ifsTeams, ifsAssignments >> } :
            /\ workingTeams' = source[1]
            /\ originalTeams' = source[1]
            /\ workingAssignments' = source[2]
            /\ originalAssignments' = source[2]
       /\ changedAssignments' = {}
       /\ changedTeams' = {}
       /\ deletedAssignments' = {}
       /\ deletedTeams' = {}) ]_vars

\* C16: deleteAssignment of an id absent from workingAssignments raises no
\* error and leaves workingAssignments and the four tracking sets unchanged,
\* and a second deleteAssignment of the same id changes nothing more.
C16_DeleteIdempotent ==
  [][ /\ (last'.op = "deleteAssignment"
            /\ last'.id \notin Ids(workingAssignments))
         => (/\ last'.ok
             /\ UNCHANGED << workingAssignments, changedAssignments,
                             changedTeams, deletedAssignments,
                             deletedTeams >>)
      /\ (last.op = "deleteAssignment" /\ last.ok
            /\ last'.op = "deleteAssignment" /\ last'.id = last.id)
         => (/\ last'.ok
             /\ UNCHANGED << workingAssignments, changedAssignments,
                             changedTeams, deletedAssignments,
                             deletedTeams >>) ]_vars

C18_ReferentialIntegrity ==
  \A a \in Range(workingAssignments) : a.teamId \in Ids(workingTeams)

\* C19: createTeam called with an empty name fails with a validation error
\* and leaves workingTeams and changedTeams unchanged: every step that is a
\* createTeam call with name "" ends rejected, with both left as they were.
C19_CreateTeamRejectsEmptyName ==
  [][ \A input \in TeamInputs :
        (input.name = "" /\ createTeam(input, 1))
          => (~last'.ok /\ UNCHANGED << workingTeams, changedTeams >>) ]_vars

\* C20: when some assignment of the team overlaps the view, the gaps that
\* findTeamLeaderGaps returns lie inside the clipped coverage span
\* [max(min member start, view.start), min(max member end, view.end)), and a
\* time of that span is in a returned gap iff no leader-flagged assignment
\* of the team contains it; with no leader-flagged assignment the result is
\* the one gap equal to the span.
C20_GapsAreComplementOfLeaderCover ==
  last.op = "findTeamLeaderGaps" =>
    LET A == workingAssignments
        view == last.viewRange
        gaps == last.gaps
        mine == { i \in 1..Len(A) : A[i].teamId = last.id }
        leading == { i \in mine : A[i].isTeamLeader }
        minStart == CHOOSE s \in { A[i].start : i \in mine } :
                      \A i \in mine : s <= A[i].start
        maxEnd == CHOOSE e \in { A[i].end : i \in mine } :
                    \A i \in mine : e >= A[i].end
        spanStart == IF minStart > view.start THEN minStart ELSE view.start
        spanEnd == IF maxEnd < view.end THEN maxEnd ELSE view.end
        led(t) == \E i \in leading : A[i].start <= t /\ t < A[i].end
        inGap(t) == \E g \in 1..Len(gaps) :
                      gaps[g].start <= t /\ t < gaps[g].end
    IN (\E i \in mine : A[i].start < view.end /\ A[i].end > view.start) =>
         /\ \A g \in 1..Len(gaps) :
              /\ spanStart <= gaps[g].start
              /\ gaps[g].start < gaps[g].end
              /\ gaps[g].end <= spanEnd
         /\ \A t \in spanStart..(spanEnd - 1) : inGap(t) <=> ~led(t)
         /\ leading = {} =>
              gaps = << [start |-> spanStart, end |-> spanEnd] >>

\* a call for a team with two leader-flagged assignments that returned
\* two gaps
C20_Witness ==
  /\ last.op = "findTeamLeaderGaps"
  /\ Len(last.gaps) = 2
  /\ Cardinality({ i \in 1..Len(workingAssignments) :
                     /\ workingAssignments[i].teamId = last.id
                     /\ workingAssignments[i].isTeamLeader }) = 2

\* C21: every gap returned by findTeamLeaderGaps is a period during which
\* the team has members assigned: every time inside a returned gap is
\* contained in some assignment of the team, and in no leader-flagged one.
C21_GapsHaveMembers ==
  last.op = "findTeamLeaderGaps" =>
    LET A == workingAssignments
        mine == { i \in 1..Len(A) : A[i].teamId = last.id }
    IN \A g \in 1..Len(last.gaps) :
         \A t \in last.gaps[g].start..(last.gaps[g].end - 1) :
           /\ \E i \in mine : A[i].start <= t /\ t < A[i].end
           /\ ~\E i \in mine : /\ A[i].isTeamLeader
                               /\ A[i].start <= t /\ t < A[i].end

\* C22: findTeamLeaderGaps returns the empty list whenever no assignment of
\* the team overlaps the view window, touching end points not counting:
\* also for a team with no assignment at all, and for a team whose span from
\* earliest start to latest end meets the view while no assignment does.
C22_NoMembersInViewNoGaps ==
  last.op = "findTeamLeaderGaps" =>
    LET A == workingAssignments
        view == last.viewRange
        mine == { i \in 1..Len(A) : A[i].teamId = last.id }
        shared(i) == { t \in A[i].start..(A[i].end - 1) :
                         view.start <= t /\ t < view.end }
    IN (\A i \in mine : shared(i) = {}) => last.gaps = << >>

\* a call for a team whose assignments end where the view starts and start
\* where it ends: the span meets the view, no assignment does
C22_Witness ==
  /\ last.op = "findTeamLeaderGaps"
  /\ last.gaps = << >>
  /\ \E i, j \in 1..Len(workingAssignments) :
       /\ workingAssignments[i].teamId = last.id
       /\ workingAssignments[j].teamId = last.id
       /\ workingAssignments[i].end = last.viewRange.start
       /\ workingAssignments[j].start = last.viewRange.end
  /\ \A i \in 1..Len(workingAssignments) :
       workingAssignments[i].teamId = last.id =>
         \/ workingAssignments[i].end <= last.viewRange.start
         \/ workingAssignments[i].start >= last.viewRange.end

\* C23: the list returned by findTeamLeaderGaps is in chronological order
\* with pairwise disjoint gaps: every gap has start < end, lies within the
\* view window and within the team's coverage span, and ends no later than
\* the next gap starts.
C23_GapsOrderedDisjointClipped ==
  last.op = "findTeamLeaderGaps" =>
    LET A == workingAssignments
        view == last.viewRange
        gaps == last.gaps
        mine == { i \in 1..Len(A) : A[i].teamId = last.id }
    IN /\ \A g \in 1..Len(gaps) :
            /\ gaps[g].start < gaps[g].end
            /\ view.start <= gaps[g].start
            /\ gaps[g].end <= view.end
            /\ \E i \in mine : A[i].start <= gaps[g].start
            /\ \E i \in mine : A[i].end >= gaps[g].end
       /\ \A g \in 1..(Len(gaps) - 1) : gaps[g].end <= gaps[g + 1].start

\* a call whose view cuts into the span and which returned a gap between
\* two leader periods and another gap
C23_Witness ==
  /\ last.op = "findTeamLeaderGaps"
  /\ Len(last.gaps) = 2
  /\ last.gaps[1].end < last.gaps[2].start
  /\ \E i \in 1..Len(workingAssignments) :
       /\ workingAssignments[i].teamId = last.id
       /\ workingAssignments[i].end > last.viewRange.end

\* C24: rangesOverlap is the half-open intersection test on valid intervals:
\* it holds iff some time lies in both [aStart, aEnd) and [bStart, bEnd); it
\* is symmetric, true of an interval and itself, false when aEnd = bStart,
\* and the copy of the API client and the copy of the domain module agree.
C24_RangesOverlapHalfOpen ==
  last.op = "rangesOverlap" =>
    LET a == last.a
        b == last.b
        common == { t \in GapTimes : /\ a.start <= t /\ t < a.end
                                     /\ b.start <= t /\ t < b.end }
    IN /\ last.api <=> common # {}
       /\ last.api <=> last.swapped
       /\ a = b => last.api
       /\ a.end = b.start => ~last.api
       /\ last.api <=> last.domain

\* a call on two intervals that touch, and are found not to overlap
C24_Witness ==
  /\ last.op = "rangesOverlap"
  /\ last.a.end = last.b.start
  /\ ~last.api

\* C25: the leader-period merge produces maximal runs: the merged list is
\* sorted by start, each merged interval starts strictly after the previous
\* one ends, and the merged intervals cover exactly the times the team's
\* leader-flagged intervals cover; [[1,3],[2,5],[8,9]] merges to
\* [[1,5],[8,9]].
C25_MergeYieldsMaximalRuns ==
  /\ mergedLeaderPeriods(<< >>, sortByStart(<< [start |-> 2, end |-> 5],
                                               [start |-> 8, end |-> 9],
                                               [start |-> 1, end |-> 3] >>))
       = << [start |-> 1, end |-> 5], [start |-> 8, end |-> 9] >>
  /\ last.op = "mergedLeaderPeriods" =>
       LET A == workingAssignments
           merged == last.merged
           leading == { i \in 1..Len(A) :
                          A[i].teamId = last.id /\ A[i].isTeamLeader }
       IN /\ \A k \in 1..(Len(merged) - 1) :
               /\ merged[k].start < merged[k + 1].start
               /\ merged[k].end < merged[k + 1].start
          /\ \A t \in GapTimes :
               (\E k \in 1..Len(merged) :
                  merged[k].start <= t /\ t < merged[k].end)
               <=> (\E i \in leading : A[i].start <= t /\ t < A[i].end)

\* three leader-flagged assignments, given out of order, merged into two runs
C25_Witness ==
  /\ last.op = "mergedLeaderPeriods"
  /\ Len(last.merged) = 2
  /\ Len(workingAssignments) = 3
  /\ \A i \in 1..3 : /\ workingAssignments[i].teamId = last.id
                     /\ workingAssignments[i].isTeamLeader
  /\ workingAssignments[1].start > workingAssignments[3].start

\* C26: an assignment created locally stays Created under updates: after
\* createAssignment and any number of successful updateAssignment calls on
\* its id, with the id never in the original snapshot, the id is in
\* changedAssignments, not in deletedAssignments, and getChangeSummary()
\* reports it in createdAssignments and not in updatedAssignments.
C26_CreatedStaysCreated ==
  ( /\ last.op \in {"createAssignment", "updateAssignment"}
    /\ last.ok
    /\ last.id \in Ids(workingAssignments)
    /\ last.id \notin Ids(originalAssignments) ) =>
      /\ last.id \in changedAssignments
      /\ last.id \notin deletedAssignments
      /\ ~getChangeSummary.threw
      /\ \E a \in Range(getChangeSummary.createdAssignments) : a.id = last.id
      /\ \A a \in Range(getChangeSummary.updatedAssignments) : a.id # last.id

\* C27: the change summary is a minimal diff: updatedAssignments never
\* reports an assignment whose working value equals its value in the
\* original snapshot, and after an update that leaves the working state equal
\* to the snapshot (the values it already had, or the original values
\* restored) hasUnsavedChanges() is false.
C27_SummaryIsMinimalDiff ==
  /\ \A a \in Range(getChangeSummary.updatedAssignments) :
       a \notin Range(originalAssignments)
  /\ ( /\ last.op = "updateAssignment"
       /\ last.ok
       /\ workingAssignments = originalAssignments
       /\ workingTeams = originalTeams ) => ~hasUnsavedChanges

\* C28: no assignment is lost, duplicated or resurrected by interleaving
\* updateAssignment, deleteAssignment and deleteTeam calls: every step keeps
\* workingAssignments free of holes with one entry per id, a step of an
\* update keeps the ids as they are, and a delete removes exactly the ids
\* it targets; so that once all calls have completed the ids are the seeded
\* ones less those whose delete completed.
C28_NoLostDuplicatedResurrected ==
  [][ LET before == Ids(workingAssignments)
          after == Ids(workingAssignments')
          n == Len(workingAssignments')
      IN /\ \A i \in 1..n : ~IsHole(workingAssignments'[i])
         /\ \A i, j \in 1..n :
              (i # j /\ ~IsHole(workingAssignments'[i])
                     /\ ~IsHole(workingAssignments'[j]))
                => workingAssignments'[i].id # workingAssignments'[j].id
         /\ last'.op \in {"updateAssignment", "await"} => after = before
         /\ last'.op = "deleteAssignment" => after = before \ {last'.id}
         /\ last'.op = "deleteTeam" =>
              after = before \ { a.id : a \in { b \in Range(workingAssignments) :
                                                  b.teamId = last'.id } }
    ]_vars

\* C29: the original snapshot is a frame for every mutation: a step of
\* createAssignment, updateAssignment, deleteAssignment, createTeam or
\* deleteTeam leaves originalTeams and originalAssignments as they were, also
\* after clearChangeTracking has moved the baseline; only getSchedulerData,
\* clearChangeTracking and resetWorkingState change them.
C29_OriginalIsFrame ==
  [][ /\ last'.op \in {"createAssignment", "updateAssignment",
                       "deleteAssignment", "createTeam", "deleteTeam"}
           => UNCHANGED << originalTeams, originalAssignments >>
      /\ << originalTeams, originalAssignments >>'
           # << originalTeams, originalAssignments >>
           => last'.op \in {"getSchedulerData", "clearChangeTracking",
                            "resetWorkingState"} ]_vars

\* a mutation made after clearChangeTracking moved the baseline onto a
\* locally created assignment, the working state now differing from it
C29_Witness ==
  /\ last.op \in {"updateAssignment", "deleteAssignment", "deleteTeam"}
  /\ last.ok
  /\ \E a \in Range(originalAssignments) :
       a.id \notin Ids(mockAssignments) \cup Ids(ifsAssignments)
  /\ workingAssignments # originalAssignments

\* C30: the token cache: after a successful authenticateIFSCloud(), whatever
\* expires_in the endpoint returned, isIFSAuthenticated() is true, and while
\* the cached token has not expired getIFSBearerToken() returns it with no
\* network request; after clearIFSToken(), or a failed authentication on an
\* empty cache, isIFSAuthenticated() is false, and a getIFSBearerToken()
\* made while it is false authenticates anew.
C30_TokenCache ==
  [][ /\ (last'.op = "authenticateIFSCloud" /\ last'.ok)
           => isIFSAuthenticated'
      /\ (last'.op = "getIFSBearerToken" /\ isIFSAuthenticated)
           => (last'.ok /\ ~last'.fetched /\ last'.id = bearerToken)
      /\ ( \/ last'.op = "clearIFSToken"
           \/ (last'.op = "authenticateIFSCloud" /\ ~last'.ok
                 /\ bearerToken = null) )
           => ~isIFSAuthenticated'
      /\ (last'.op = "getIFSBearerToken" /\ ~isIFSAuthenticated)
           => last'.fetched ]_vars

====
